---------------------------- MODULE Spec2Model ----------------------------
(***************************************************************************)
(* killallgit: a model of src/main.rs.  One run of the command line tool   *)
(* is a state machine whose steps are the blocking interactions of the     *)
(* program with its collaborators: the git backend (listing, deleting,     *)
(* creating), the terminal prompts (menus, multi-selection, confirmation)  *)
(* and standard output.  Strings are sequences of one-character strings,   *)
(* so that splitting, trimming, prefix stripping, regular expression       *)
(* search and JSON rendering are computed as the code computes them.       *)
(***************************************************************************)
EXTENDS Integers, Sequences, FiniteSets, TLC

(***************************************************************************)
(* Strings                                                                 *)
(***************************************************************************)
s_main == <<"m", "a", "i", "n">>
s_master == <<"m", "a", "s", "t", "e", "r">>
s_develop == <<"d", "e", "v", "e", "l", "o", "p">>
s_development == <<"d", "e", "v", "e", "l", "o", "p", "m", "e", "n", "t">>
s_wa == <<"f", "-", "a">>
s_wb == <<"f", "-", "b">>
s_fa == <<"f", "/", "a">>
s_fb == <<"f", "/", "b">>
s_rel == <<"r", "e", "l">>
s_stg == <<"s", "t", "g">>
s_Main == <<"M", "a", "i", "n">>
s_repo == <<"r", "e", "p", "o">>
s_bare == <<"b", "a", "r", "e">>
s_origin == <<"o">>
s_HEAD == <<"H", "E", "A", "D">>

\* str::starts_with
StartsWith(s, prefix) ==
    /\ Len(prefix) <= Len(s)
    /\ SubSeq(s, 1, Len(prefix)) = prefix

\* str::strip_prefix(..).unwrap(), used only where StartsWith holds
StripPrefix(s, prefix) == SubSeq(s, Len(prefix) + 1, Len(s))

\* str::contains
Contains(s, sub) ==
    \E i \in 1..(Len(s) + 1) :
        /\ i + Len(sub) - 1 <= Len(s)
        /\ SubSeq(s, i, i + Len(sub) - 1) = sub

IsWhitespace(c) == c \in {" ", "\t", "\n", "\r"}

\* str::trim: the longest substring without leading or trailing whitespace
RECURSIVE TrimStart(_)
TrimStart(s) ==
    IF s # <<>> /\ IsWhitespace(Head(s)) THEN TrimStart(Tail(s)) ELSE s

RECURSIVE TrimEnd(_)
TrimEnd(s) ==
    IF s # <<>> /\ IsWhitespace(s[Len(s)])
    THEN TrimEnd(SubSeq(s, 1, Len(s) - 1))
    ELSE s

Trim(s) == TrimEnd(TrimStart(s))

\* str::split(sep) for a one-character separator: the pieces between the
\* separators, in order; n separators give n + 1 pieces (some may be empty)
RECURSIVE SplitFrom(_, _, _, _)
SplitFrom(s, sep, i, cur) ==
    IF i > Len(s) THEN <<cur>>
    ELSE IF s[i] = sep THEN <<cur>> \o SplitFrom(s, sep, i + 1, <<>>)
    ELSE SplitFrom(s, sep, i + 1, Append(cur, s[i]))

Split(s, sep) == SplitFrom(s, sep, 1, <<>>)

Range(seq) == {seq[i] : i \in 1..Len(seq)}

\* Every subsequence of seq (elements kept in their order)
RECURSIVE SubSeqs(_)
SubSeqs(seq) ==
    IF seq = <<>> THEN {<<>>}
    ELSE LET rest == SubSeqs(Tail(seq))
         IN  rest \cup {<<Head(seq)>> \o r : r \in rest}

(***************************************************************************)
(* Regular expressions (the regex crate), for the syntax the patterns of   *)
(* the model use: literals, '.', a postfix '*', a leading '^', a trailing  *)
(* '$'; a '[' that is never closed, or a leading '*', does not compile.    *)
(***************************************************************************)
\* Regex::new(pattern).is_ok()
RegexCompiles(pattern) ==
    /\ ~(\E i \in 1..Len(pattern) : pattern[i] = "[")
    /\ ~(pattern # <<>> /\ pattern[1] = "*")

RECURSIVE MatchHere(_, _, _, _)
MatchHere(re, i, s, j) ==
    IF i > Len(re) THEN TRUE
    ELSE IF re[i] = "$" /\ i = Len(re) THEN j > Len(s)
    ELSE IF i + 1 <= Len(re) /\ re[i + 1] = "*"
    THEN \E k \in j..(Len(s) + 1) :
            /\ \A m \in j..(k - 1) : re[i] = "." \/ re[i] = s[m]
            /\ MatchHere(re, i + 2, s, k)
    ELSE /\ j <= Len(s)
         /\ (re[i] = "." \/ re[i] = s[j])
         /\ MatchHere(re, i + 1, s, j + 1)

\* A variant that matches at the start of the name only
IsMatch_anchored(re, s) ==
    IF re # <<>> /\ re[1] = "^"
    THEN MatchHere(re, 2, s, 1)
    ELSE MatchHere(re, 1, s, 1)

\* Regex::is_match: an unanchored search
IsMatch(re, s) ==
    IF re # <<>> /\ re[1] = "^"
    THEN MatchHere(re, 2, s, 1)
    ELSE \E j \in 1..(Len(s) + 1) : MatchHere(re, 1, s, j)

(***************************************************************************)
(* Protection policy                                                       *)
(***************************************************************************)
DEFAULT_PROTECTED == {s_main, s_master, s_develop, s_development}

\* The KILLALLGIT_PROTECTED variable: absent, or present with a value
EnvAbsent == [set |-> FALSE, val |-> <<>>]
EnvValue(v) == [set |-> TRUE, val |-> v]

\* A variant that compares the override's entries untrimmed
is_protected_branch_untrimmed(name, env) ==
    IF name \in DEFAULT_PROTECTED THEN TRUE
    ELSE IF env.set
    THEN LET extra == Split(env.val, ",")
         IN  \E i \in 1..Len(extra) : extra[i] = name
    ELSE FALSE

is_protected_branch(name, env) ==
    IF name \in DEFAULT_PROTECTED THEN TRUE
    ELSE IF env.set
    THEN LET extra == Split(env.val, ",")
         IN  \E i \in 1..Len(extra) : Trim(extra[i]) = name
    ELSE FALSE

(***************************************************************************)
(* Output formatter.  Standard output is a sequence of lines: a raw line   *)
(* carries its text, a styled line the message it shows and its items.     *)
(***************************************************************************)
Line(k, msg, text, its, d, f) ==
    [k |-> k, msg |-> msg, text |-> text, items |-> its, d |-> d, f |-> f]

Raw(text) == Line("raw", "", text, <<>>, 0, 0)
Msg(m) == Line("msg", m, <<>>, <<>>, 0, 0)

\* serde_json's rendering of one string: quoted, '"' and '\' escaped
RECURSIVE JsonEscape(_)
JsonEscape(s) ==
    IF s = <<>> THEN <<>>
    ELSE (IF Head(s) \in {"\"", "\\"} THEN <<"\\", Head(s)>> ELSE <<Head(s)>>)
         \o JsonEscape(Tail(s))

JsonString(s) == <<"\"">> \o JsonEscape(s) \o <<"\"">>

RECURSIVE JsonJoin(_)
JsonJoin(its) ==
    IF its = <<>> THEN <<>>
    ELSE IF Len(its) = 1 THEN JsonString(its[1])
    ELSE JsonString(its[1]) \o <<",">> \o JsonJoin(Tail(its))

\* serde_json::to_string(&items)
JsonArray(its) == <<"[">> \o JsonJoin(its) \o <<"]">>

print_json_array(its) == <<Raw(JsonArray(its))>>

\* A variant that prints nothing for an empty result when json is set
handle_empty_result_silent_json(json, dry_run, message) ==
    IF ~json /\ ~dry_run THEN <<Msg(message)>> ELSE <<>>

handle_empty_result(json, dry_run, message) ==
    IF json THEN print_json_array(<<>>)
    ELSE IF ~dry_run THEN <<Msg(message)>>
    ELSE <<>>

output_dry_run(its, json) ==
    IF json THEN print_json_array(its)
    ELSE [i \in 1..Len(its) |-> Raw(its[i])]

display_protected_items(its, label) ==
    IF its # <<>> THEN <<Line("protected", label, <<>>, its, 0, 0)>> ELSE <<>>

display_items_for_deletion(its, item_type) ==
    <<Line("found", item_type, <<>>, its, 0, 0)>>

\* print_deletion_result: a check mark, or a cross with the error
print_deletion_result(name, ok, err) ==
    <<Line("result", IF ok THEN "ok" ELSE err, name, <<>>, 0, 0)>>

print_deletion_summary(deleted, failed, item_type) ==
    <<Line("deleted", item_type, <<>>, <<>>, deleted, 0)>>
    \o (IF failed > 0 THEN <<Line("failed", item_type, <<>>, <<>>, 0, failed)>>
        ELSE <<>>)

(***************************************************************************)
(* The inputs of a run                                                     *)
(***************************************************************************)
None == [some |-> FALSE, v |-> <<>>]
Some(x) == [some |-> TRUE, v |-> x]

\* Resource names the backend may hold, in the order it lists them
Pool == <<s_fa, s_fb, s_main, s_rel>>
Listings == SubSeqs(Pool)

\* Worktree directory names (a file name holds no '/')
WtPool == <<s_wa, s_wb, s_main, s_rel>>
WtListings == SubSeqs(WtPool)

p_feat == <<"f", ".", "*">>
p_all == <<".", "*">>
p_main == <<"m", "a", "i", "n">>
p_a == <<"a">>
p_bad == <<"[">>
p_o_all == <<"o", "/", ".", "*">>
p_o_main == <<"o", "/", "^", "m", "a", "i", "n", "$">>
p_o_bad == <<"o", "/", "[">>
Patterns == {p_feat, p_all, p_main, p_a, p_bad, p_o_all, p_o_main, p_o_bad}

\* KILLALLGIT_PROTECTED: absent, or "rel, stg"
s_rel_stg == <<"r", "e", "l", ",", " ", "s", "t", "g">>
Envs == {EnvAbsent, EnvValue(s_rel_stg)}

\* clap: --json requires --dry-run
Flags == {f \in [force : BOOLEAN, dry_run : BOOLEAN, json : BOOLEAN] :
             f.json => f.dry_run}

Args(pattern, force, dry_run, json) ==
    [pattern |-> pattern, force |-> force, dry_run |-> dry_run, json |-> json]

NoArgs == Args(None, FALSE, FALSE, FALSE)

\* The command lines: no subcommand; add worktree <name>; clean worktrees
\* --all; clean worktrees [<pattern>]; clean branches [<pattern>]
CommandLines ==
    {[cmd |-> c, args |-> NoArgs] : c \in {"menu", "add"}}
    \cup {[cmd |-> "worktrees_all", args |-> Args(None, f.force, f.dry_run, f.json)] :
            f \in Flags}
    \cup {[cmd |-> c, args |-> Args(p, f.force, f.dry_run, f.json)] :
            c \in {"worktrees", "branches"},
            p \in {None} \cup {Some(x) : x \in Patterns},
            f \in Flags}

\* What the backend holds is fixed the first time the program observes it
Unobserved == [known |-> FALSE, v |-> <<>>]
Observed(x) == [known |-> TRUE, v |-> x]

\* How often the operator repeats a finished dry-run
MaxRuns == 2

VARIABLES
    cli,        \* the command line of this run
    terminal,   \* standard input is a terminal
    env,        \* KILLALLGIT_PROTECTED
    git,        \* the backend: worktrees, local and remote branches, remotes
    pc,         \* where the run is
    args,       \* pattern, force, dry_run, json of the clean function running
    scope,      \* the resource kind and remote the run has resolved
    items,      \* the names offered for selection
    targets,    \* the names handed to the batch delete
    idx,        \* the batch delete's position in targets
    deleted,    \* the batch delete's count of successes
    failed,     \* the batch delete's count of failures
    result,     \* "running", "Ok" or the error main returns
    out,        \* standard output
    calls,      \* the backend calls and prompts of this run, in order
    prompted,   \* a prompt has been presented in this run
    run,        \* the number of this run
    prevOut,    \* standard output of the previous run
    prevCalls,  \* the backend calls of the previous run, with their answers
    fnIn,       \* the input of the function applied (function specifications)
    fnOut       \* its result

vars == <<cli, terminal, env, git, pc, args, scope, items, targets, idx,
          deleted, failed, result, out, calls, prompted, run, prevOut, prevCalls,
          fnIn, fnOut>>

Call(op, name, flag) == [op |-> op, name |-> name, flag |-> flag]

LocalScope == [kind |-> "local", remote |-> <<>>]
RemoteScope(r) == [kind |-> "remote", remote |-> r]
WorktreeScope == [kind |-> "worktree", remote |-> <<>>]

(***************************************************************************)
(* The code between two interactions: from what an interaction returned to *)
(* the next one.  A Step is where the run goes next, what main returns     *)
(* when it ends there, the lines printed, the names offered for selection  *)
(* and the names handed to the batch delete.                               *)
(***************************************************************************)
Step(p, res, lines, its, tgts) ==
    [pc |-> p, result |-> res, lines |-> lines, items |-> its, targets |-> tgts]

Return(res, lines) == Step("done", res, lines, <<>>, <<>>)

\* `!force && !confirm_deletion(..)?`: the prompt is shown unless force
ConfirmThenDelete(force, lines, tgts) ==
    Step(IF force THEN "delete" ELSE "confirm", "running", lines, <<>>, tgts)

\* get_existing_worktrees, after `git worktree list` succeeded: the file
\* names of the listed paths, without "bare", "" and the current directory
get_existing_worktrees(names, current_worktree_name) ==
    SelectSeq(names, LAMBDA n : n # s_bare /\ n # <<>> /\ n # current_worktree_name)

\* get_local_branches, after `git branch` succeeded
get_local_branches(lines, current) ==
    SelectSeq([i \in 1..Len(lines) |-> Trim(lines[i])],
              LAMBDA s : s # <<>> /\ s # current)

\* get_remote_branches, after `git branch -r` succeeded
get_remote_branches(lines, remote) ==
    LET prefix == remote \o <<"/">>
        kept == SelectSeq([i \in 1..Len(lines) |-> Trim(lines[i])],
                          LAMBDA l : StartsWith(l, prefix) /\ ~Contains(l, s_HEAD))
    IN  [i \in 1..Len(kept) |-> StripPrefix(kept[i], prefix)]

\* A variant that returns the pattern with its remote prefix left on
parse_branch_pattern_keep_prefix(pattern, remotes) ==
    LET hits == {i \in 1..Len(remotes) : StartsWith(pattern, remotes[i] \o <<"/">>)}
    IN  IF hits = {} THEN [scope |-> LocalScope, pattern |-> pattern]
        ELSE LET k == CHOOSE i \in hits : \A j \in hits : i <= j
             IN  [scope |-> RemoteScope(remotes[k]), pattern |-> pattern]

\* A variant that takes the remote's name alone, without "/", for the prefix
parse_branch_pattern_bare_prefix(pattern, remotes) ==
    LET hits == {i \in 1..Len(remotes) : StartsWith(pattern, remotes[i])}
    IN  IF hits = {} THEN [scope |-> LocalScope, pattern |-> pattern]
        ELSE LET k == CHOOSE i \in hits : \A j \in hits : i <= j
             IN  [scope |-> RemoteScope(remotes[k]),
                  pattern |-> SubSeq(pattern, Len(remotes[k]) + 2, Len(pattern))]

\* parse_branch_pattern, after get_configured_remotes returned remotes
RECURSIVE parse_branch_pattern(_, _)
parse_branch_pattern(pattern, remotes) ==
    IF remotes = <<>> THEN [scope |-> LocalScope, pattern |-> pattern]
    ELSE LET prefix == Head(remotes) \o <<"/">>
         IN  IF StartsWith(pattern, prefix)
             THEN [scope |-> RemoteScope(Head(remotes)),
                   pattern |-> StripPrefix(pattern, prefix)]
             ELSE parse_branch_pattern(pattern, Tail(remotes))

Matching(pattern, names) == SelectSeq(names, LAMBDA n : IsMatch(pattern, n))

\* A variant whose deletable half keeps every name
Partition_keep_all(names, e) ==
    [protected |-> SelectSeq(names, LAMBDA b : is_protected_branch(b, e)),
     deletable |-> names]

\* Iterator::partition(|b| is_protected_branch(b))
Partition(names, e) ==
    [protected |-> SelectSeq(names, LAMBDA b : is_protected_branch(b, e)),
     deletable |-> SelectSeq(names, LAMBDA b : ~is_protected_branch(b, e))]

\* clean_worktrees, after get_existing_worktrees returned worktrees
clean_worktrees_by_pattern(pattern, worktrees, a) ==
    IF ~RegexCompiles(pattern) THEN Return("Err:InvalidPattern", <<>>)
    ELSE LET matching == Matching(pattern, worktrees)
         IN  IF matching = <<>>
             THEN Return("Ok", handle_empty_result(a.json, a.dry_run, "No worktrees matching found."))
             ELSE IF a.dry_run THEN Return("Ok", output_dry_run(matching, a.json))
             ELSE ConfirmThenDelete(a.force,
                                    display_items_for_deletion(matching, "worktrees"),
                                    matching)

clean_worktrees(worktrees, a) ==
    IF worktrees = <<>>
    THEN Return("Ok", handle_empty_result(a.json, a.dry_run, "No worktrees found."))
    ELSE IF a.pattern.some THEN clean_worktrees_by_pattern(a.pattern.v, worktrees, a)
    ELSE IF a.dry_run THEN Return("Ok", output_dry_run(worktrees, a.json))
    ELSE Step("multi_select", "running", <<>>, worktrees, <<>>)

\* A variant that does not look at dry_run
clean_all_worktrees_no_dry_run(worktrees, a) ==
    IF worktrees = <<>>
    THEN Return("Ok", handle_empty_result(a.json, a.dry_run, "No worktrees found."))
    ELSE ConfirmThenDelete(a.force,
                           <<Line("found", "all worktrees", <<>>, worktrees, 0, 0)>>,
                           worktrees)

clean_all_worktrees(worktrees, a) ==
    IF worktrees = <<>>
    THEN Return("Ok", handle_empty_result(a.json, a.dry_run, "No worktrees found."))
    ELSE IF a.dry_run THEN Return("Ok", output_dry_run(worktrees, a.json))
    ELSE ConfirmThenDelete(a.force,
                           <<Line("found", "all worktrees", <<>>, worktrees, 0, 0)>>,
                           worktrees)

\* A variant whose dry-run prints the matching names, protected or not
clean_local_branches_by_pattern_dry_matching(pattern, branches, a, e) ==
    IF branches = <<>>
    THEN Return("Ok", handle_empty_result(a.json, a.dry_run, "No local branches found."))
    ELSE IF ~RegexCompiles(pattern) THEN Return("Err:InvalidPattern", <<>>)
    ELSE LET matching == Matching(pattern, branches)
             part == Partition(matching, e)
         IN  IF matching = <<>>
             THEN Return("Ok", handle_empty_result(a.json, a.dry_run,
                                                   "No local branches matching found."))
             ELSE IF a.dry_run THEN Return("Ok", output_dry_run(matching, a.json))
             ELSE IF part.deletable = <<>>
             THEN Return("Ok", display_protected_items(part.protected, "branches")
                               \o <<Msg("No deletable branches (all matched are protected).")>>)
             ELSE ConfirmThenDelete(a.force,
                                    display_protected_items(part.protected, "branches")
                                    \o display_items_for_deletion(part.deletable, "local branches"),
                                    part.deletable)

\* clean_local_branches_by_pattern, after get_local_branches returned
clean_local_branches_by_pattern(pattern, branches, a, e) ==
    IF branches = <<>>
    THEN Return("Ok", handle_empty_result(a.json, a.dry_run, "No local branches found."))
    ELSE IF ~RegexCompiles(pattern) THEN Return("Err:InvalidPattern", <<>>)
    ELSE LET matching == Matching(pattern, branches)
             part == Partition(matching, e)
         IN  IF matching = <<>>
             THEN Return("Ok", handle_empty_result(a.json, a.dry_run,
                                                   "No local branches matching found."))
             ELSE IF a.dry_run THEN Return("Ok", output_dry_run(part.deletable, a.json))
             ELSE IF part.deletable = <<>>
             THEN Return("Ok", display_protected_items(part.protected, "branches")
                               \o <<Msg("No deletable branches (all matched are protected).")>>)
             ELSE ConfirmThenDelete(a.force,
                                    display_protected_items(part.protected, "branches")
                                    \o display_items_for_deletion(part.deletable, "local branches"),
                                    part.deletable)

\* clean_remote_branches_by_pattern, after get_remote_branches returned
clean_remote_branches_by_pattern(pattern, branches, a, e) ==
    IF branches = <<>>
    THEN Return("Ok", handle_empty_result(a.json, a.dry_run, "No remote branches found."))
    ELSE IF ~RegexCompiles(pattern) THEN Return("Err:InvalidPattern", <<>>)
    ELSE LET matching == Matching(pattern, branches)
             part == Partition(matching, e)
         IN  IF matching = <<>>
             THEN Return("Ok", handle_empty_result(a.json, a.dry_run,
                                                   "No remote branches matching found."))
             ELSE IF a.dry_run THEN Return("Ok", output_dry_run(part.deletable, a.json))
             ELSE IF part.deletable = <<>>
             THEN Return("Ok", display_protected_items(part.protected, "branches")
                               \o <<Msg("No deletable branches (all matched are protected).")>>)
             ELSE ConfirmThenDelete(a.force,
                                    display_protected_items(part.protected, "branches")
                                    \o display_items_for_deletion(part.deletable, "remote branches"),
                                    part.deletable)

\* clean_branches with no pattern and dry_run, after get_local_branches
clean_branches_dry_run(branches, a, e) ==
    Return("Ok", output_dry_run(Partition(branches, e).deletable, a.json))

\* A variant that offers every listed branch for selection
clean_local_branches_interactive_offer_all(branches, e) ==
    LET part == Partition(branches, e)
        shown == display_protected_items(part.protected, "branches (not selectable)")
    IN  IF branches = <<>>
        THEN Return("Ok", shown \o <<Msg("No deletable local branches (all are protected).")>>)
        ELSE Step("multi_select", "running", shown, branches, <<>>)

\* clean_local_branches_interactive, after get_local_branches returned
clean_local_branches_interactive(branches, e) ==
    LET part == Partition(branches, e)
        shown == display_protected_items(part.protected, "branches (not selectable)")
    IN  IF part.deletable = <<>>
        THEN Return("Ok", shown \o <<Msg("No deletable local branches (all are protected).")>>)
        ELSE Step("multi_select", "running", shown, part.deletable, <<>>)

\* clean_remote_branches_interactive, after get_remote_branches returned
clean_remote_branches_interactive(branches, e) ==
    LET part == Partition(branches, e)
        shown == display_protected_items(part.protected, "branches (not selectable)")
    IN  IF part.deletable = <<>>
        THEN Return("Ok", shown \o <<Msg("No deletable remote branches (all are protected).")>>)
        ELSE Step("multi_select", "running", shown, part.deletable, <<>>)

\* A variant that takes an empty selection for a selection
interactive_multi_select_empty_is_some(cancelled, chosen) ==
    IF ~cancelled THEN [selected |-> Some(chosen), lines |-> <<>>]
    ELSE [selected |-> None, lines |-> <<Msg("Selection cancelled.")>>]

\* interactive_multi_select, after the prompt returned: cancelled, or the
\* chosen names in the order offered.  The result is Some(names) or None.
interactive_multi_select(cancelled, chosen) ==
    IF ~cancelled /\ chosen # <<>> THEN [selected |-> Some(chosen), lines |-> <<>>]
    ELSE IF ~cancelled
    THEN [selected |-> None, lines |-> <<Msg("No items selected.")>>]
    ELSE [selected |-> None, lines |-> <<Msg("Selection cancelled.")>>]

\* The callers of interactive_multi_select, after it returned
clean_selected(sel, force, item_type) ==
    IF ~sel.selected.some THEN Return("Ok", sel.lines)
    ELSE ConfirmThenDelete(force,
                           sel.lines \o display_items_for_deletion(sel.selected.v, item_type),
                           sel.selected.v)

(***************************************************************************)
(* The state machine                                                       *)
(***************************************************************************)
Backend0 ==
    [wts |-> Unobserved, local |-> Unobserved, cur |-> <<>>,
     remotes |-> Unobserved, rbr |-> Unobserved]

Init ==
    /\ cli \in CommandLines
    /\ terminal \in BOOLEAN
    /\ env \in Envs
    /\ git = Backend0
    /\ pc = "main"
    /\ args = NoArgs
    /\ scope = WorktreeScope
    /\ items = <<>>
    /\ targets = <<>>
    /\ idx = 1
    /\ deleted = 0
    /\ failed = 0
    /\ result = "running"
    /\ out = <<>>
    /\ calls = <<>>
    /\ prompted = FALSE
    /\ run = 1
    /\ prevOut = <<>>
    /\ prevCalls = <<>>
    /\ fnIn = <<>>
    /\ fnOut = <<>>

inputs == <<cli, terminal, env>>
history == <<run, prevOut, prevCalls>>
fnvars == <<fnIn, fnOut>>

\* Take a Step: the lines are printed, the batch counters start afresh
Take(st) ==
    /\ pc' = st.pc
    /\ result' = st.result
    /\ out' = out \o st.lines
    /\ items' = st.items
    /\ targets' = st.targets
    /\ idx' = 1
    /\ deleted' = 0
    /\ failed' = 0

\* main: the dispatch on the command line
main ==
    /\ pc = "main"
    /\ pc' = CASE cli.cmd = "menu" -> "interactive_menu"
               [] cli.cmd = "add" -> "add_worktree"
               [] cli.cmd = "worktrees_all" -> "clean_all_worktrees"
               [] cli.cmd = "worktrees" -> "clean_worktrees"
               [] OTHER -> "clean_branches"
    /\ args' = cli.args
    /\ UNCHANGED <<inputs, git, scope, items, targets, idx, deleted, failed,
                   result, out, calls, prompted, history, fnvars>>

\* interactive_menu, up to its loop: the terminal check
interactive_menu ==
    /\ pc = "interactive_menu"
    /\ IF ~terminal
       THEN Take(Return("Err:RequiresTerminal", <<>>))
       ELSE Take(Step("menu_main", "running", <<>>, <<>>, <<>>))
    /\ UNCHANGED <<inputs, git, args, scope, calls, prompted, history, fnvars>>

\* interactive_menu: the main menu (Add, Clean, Exit)
menu_main ==
    /\ pc = "menu_main"
    /\ prompted' = TRUE
    /\ \/ Take(Return("Err:Prompt", <<>>))
       \/ \E selection \in {"Add", "Clean"} :
            Take(Step(IF selection = "Add" THEN "menu_add" ELSE "menu_clean",
                      "running", <<>>, <<>>, <<>>))
       \/ \E selection \in {"Exit", "None"} : Take(Return("Ok", <<>>))
    /\ UNCHANGED <<inputs, git, args, scope, calls, history, fnvars>>

\* interactive_menu: the Add submenu (Worktree, Back)
menu_add ==
    /\ pc = "menu_add"
    /\ prompted' = TRUE
    /\ \/ Take(Return("Err:Prompt", <<>>))
       \/ Take(Step("add_worktree", "running", <<>>, <<>>, <<>>))
       \/ \E add_sel \in {"Back", "None"} :
            Take(Step("menu_main", "running", <<>>, <<>>, <<>>))
    /\ UNCHANGED <<inputs, git, args, scope, calls, history, fnvars>>

\* A variant in which Back in the Clean submenu leaves the loop
menu_clean_back_exits ==
    /\ pc = "menu_clean"
    /\ prompted' = TRUE
    /\ \/ Take(Return("Err:Prompt", <<>>)) /\ args' = args
       \/ \E clean_sel \in {"clean_worktrees", "clean_branches"} :
            /\ Take(Step(clean_sel, "running", <<>>, <<>>, <<>>))
            /\ args' = Args(None, FALSE, FALSE, FALSE)
       \/ /\ \E clean_sel \in {"Back", "None"} : Take(Return("Ok", <<>>))
          /\ args' = args
    /\ UNCHANGED <<inputs, git, scope, calls, history, fnvars>>

\* interactive_menu: the Clean submenu (Worktrees, Branches, Back)
menu_clean ==
    /\ pc = "menu_clean"
    /\ prompted' = TRUE
    /\ \/ Take(Return("Err:Prompt", <<>>)) /\ args' = args
       \/ \E clean_sel \in {"clean_worktrees", "clean_branches"} :
            /\ Take(Step(clean_sel, "running", <<>>, <<>>, <<>>))
            /\ args' = Args(None, FALSE, FALSE, FALSE)
       \/ /\ \E clean_sel \in {"Back", "None"} :
               Take(Step("menu_main", "running", <<>>, <<>>, <<>>))
          /\ args' = args
    /\ UNCHANGED <<inputs, git, scope, calls, history, fnvars>>

\* add_worktree: the path, the directory, `git worktree add`
add_worktree ==
    /\ pc = "add_worktree"
    /\ \/ /\ Take(Return("Err:AddWorktree", <<>>))
          /\ calls' = Append(calls, Call("worktree_add", <<>>, "failed"))
       \/ /\ Take(Return("Ok", <<Msg("path")>>))
          /\ calls' = Append(calls, Call("worktree_add", <<>>, "ok"))
    /\ UNCHANGED <<inputs, git, args, scope, prompted, history, fnvars>>

\* What `git remote` prints when it can run: nothing or the remote "o"
RemoteLists == {<<>>, <<s_origin>>}

\* `git branch -r`: the remote's HEAD line, then one line per branch
RemoteLines(remote, names) ==
    <<remote \o <<"/">> \o s_HEAD \o <<" ", "-", ">", " ">> \o remote \o <<"/">> \o s_main>>
    \o [i \in 1..Len(names) |-> <<" ", " ">> \o remote \o <<"/">> \o names[i]]

\* `git worktree list`: the main working tree, which is the current
\* directory, then the linked worktrees
WorktreeNames(names) == <<s_repo>> \o names

\* An interaction's outcome: whether it succeeded, what it returned, the
\* backend as the program has now observed it, and what the run logs
Outcome(ok, v, g, log) == [ok |-> ok, v |-> v, git |-> g, log |-> log]

\* get_configured_remotes: `git remote` cannot be run (an error), or it
\* fails (no remotes), or it prints the configured remotes
GetConfiguredRemotes ==
    {Outcome(FALSE, <<>>, git, <<Call("remote_list", <<>>, "error")>>),
     Outcome(TRUE, <<>>, git, <<Call("remote_list", <<>>, "failed")>>)}
    \cup {Outcome(TRUE, r, [git EXCEPT !.remotes = Observed(r)],
                  <<Call("remote_list", <<>>, "ok")>>) :
            r \in (IF git.remotes.known THEN {git.remotes.v} ELSE RemoteLists)}

\* get_existing_worktrees: `git worktree list` fails, or lists the worktrees
GetExistingWorktrees ==
    {Outcome(FALSE, <<>>, git, <<Call("worktree_list", <<>>, "failed")>>)}
    \cup {Outcome(TRUE, get_existing_worktrees(WorktreeNames(names), s_repo),
                  [git EXCEPT !.wts = Observed(names)],
                  <<Call("worktree_list", <<>>, "ok")>>) :
            names \in (IF git.wts.known THEN {git.wts.v} ELSE WtListings)}

\* get_local_branches: `git branch` fails, or lists the branches; the
\* current branch, when it cannot be determined, defaults to ""
GetLocalBranches ==
    {Outcome(FALSE, <<>>, git, <<Call("branch_list", <<>>, "failed")>>)}
    \cup UNION {
          {Outcome(TRUE, get_local_branches(all, IF known THEN cur ELSE <<>>),
                   [git EXCEPT !.local = Observed(all), !.cur = cur],
                   <<Call("branch_list", <<>>, "ok"),
                     Call("current_branch", <<>>, IF known THEN "ok" ELSE "failed")>>) :
              cur \in (IF git.local.known THEN {git.cur} ELSE Range(all)),
              known \in BOOLEAN} :
          all \in (IF git.local.known THEN {git.local.v} ELSE Listings \ {<<>>})}

\* get_remote_branches: `git branch -r` fails, or lists the branches
GetRemoteBranches(remote) ==
    {Outcome(FALSE, <<>>, git, <<Call("remote_branch_list", remote, "failed")>>)}
    \cup {Outcome(TRUE, get_remote_branches(RemoteLines(remote, names), remote),
                  [git EXCEPT !.rbr = Observed(names)],
                  <<Call("remote_branch_list", remote, "ok")>>) :
            names \in (IF git.rbr.known THEN {git.rbr.v} ELSE Listings)}

\* clean_worktrees, through get_existing_worktrees
clean_worktrees_call ==
    /\ pc = "clean_worktrees"
    /\ scope' = WorktreeScope
    /\ \E o \in GetExistingWorktrees :
          /\ calls' = calls \o o.log
          /\ git' = o.git
          /\ Take(IF o.ok THEN clean_worktrees(o.v, args)
                  ELSE Return("Err:ListWorktrees", <<>>))
    /\ UNCHANGED <<inputs, args, prompted, history, fnvars>>

\* clean_all_worktrees, through get_existing_worktrees
clean_all_worktrees_call ==
    /\ pc = "clean_all_worktrees"
    /\ scope' = WorktreeScope
    /\ \E o \in GetExistingWorktrees :
          /\ calls' = calls \o o.log
          /\ git' = o.git
          /\ Take(IF o.ok THEN clean_all_worktrees(o.v, args)
                  ELSE Return("Err:ListWorktrees", <<>>))
    /\ UNCHANGED <<inputs, args, prompted, history, fnvars>>

\* clean_branches with a pattern: parse_branch_pattern, then the scope's
\* clean function
clean_branches_pattern ==
    /\ pc = "clean_branches"
    /\ args.pattern.some
    /\ \E o \in GetConfiguredRemotes :
          LET parsed == parse_branch_pattern(args.pattern.v, o.v)
          IN  /\ calls' = calls \o o.log
              /\ git' = o.git
              /\ scope' = IF o.ok THEN parsed.scope ELSE scope
              /\ args' = IF o.ok THEN [args EXCEPT !.pattern = Some(parsed.pattern)]
                         ELSE args
              /\ Take(IF ~o.ok THEN Return("Err:GitRemote", <<>>)
                      ELSE Step(IF parsed.scope.kind = "local"
                                THEN "clean_local_branches_by_pattern"
                                ELSE "clean_remote_branches_by_pattern",
                                "running", <<>>, <<>>, <<>>))
    /\ UNCHANGED <<inputs, prompted, history, fnvars>>

\* clean_branches without a pattern, dry_run: the local branches
clean_branches_dry ==
    /\ pc = "clean_branches"
    /\ ~args.pattern.some
    /\ args.dry_run
    /\ scope' = LocalScope
    /\ \E o \in GetLocalBranches :
          /\ calls' = calls \o o.log
          /\ git' = o.git
          /\ Take(IF o.ok THEN clean_branches_dry_run(o.v, args, env)
                  ELSE Return("Err:ListLocal", <<>>))
    /\ UNCHANGED <<inputs, args, prompted, history, fnvars>>

\* clean_branches without a pattern: clean_branches_interactive, through
\* get_configured_remotes; the scopes offered are kept in items
clean_branches_interactive ==
    /\ pc = "clean_branches"
    /\ ~args.pattern.some
    /\ ~args.dry_run
    /\ \E o \in GetConfiguredRemotes :
          /\ calls' = calls \o o.log
          /\ git' = o.git
          /\ Take(IF o.ok THEN Step("scope_select", "running", <<>>, o.v, <<>>)
                  ELSE Return("Err:GitRemote", <<>>))
    /\ UNCHANGED <<inputs, args, scope, prompted, history, fnvars>>

\* clean_branches_interactive: the scope selection
scope_select ==
    /\ pc = "scope_select"
    /\ prompted' = TRUE
    /\ \/ /\ Take(Return("Err:Prompt", <<>>))
          /\ scope' = scope
       \/ /\ Take(Return("Ok", <<Msg("Selection cancelled.")>>))
          /\ scope' = scope
       \/ /\ Take(Step("clean_local_branches_interactive", "running", <<>>, <<>>, <<>>))
          /\ scope' = LocalScope
       \/ \E i \in 1..Len(items) :
             /\ Take(Step("clean_remote_branches_interactive", "running", <<>>, <<>>, <<>>))
             /\ scope' = RemoteScope(items[i])
    /\ UNCHANGED <<inputs, git, args, calls, history, fnvars>>

clean_local_branches_by_pattern_call ==
    /\ pc = "clean_local_branches_by_pattern"
    /\ \E o \in GetLocalBranches :
          /\ calls' = calls \o o.log
          /\ git' = o.git
          /\ Take(IF o.ok
                  THEN clean_local_branches_by_pattern(args.pattern.v, o.v, args, env)
                  ELSE Return("Err:ListLocal", <<>>))
    /\ UNCHANGED <<inputs, args, scope, prompted, history, fnvars>>

clean_remote_branches_by_pattern_call ==
    /\ pc = "clean_remote_branches_by_pattern"
    /\ \E o \in GetRemoteBranches(scope.remote) :
          /\ calls' = calls \o o.log
          /\ git' = o.git
          /\ Take(IF o.ok
                  THEN clean_remote_branches_by_pattern(args.pattern.v, o.v, args, env)
                  ELSE Return("Err:ListRemote", <<>>))
    /\ UNCHANGED <<inputs, args, scope, prompted, history, fnvars>>

clean_local_branches_interactive_call ==
    /\ pc = "clean_local_branches_interactive"
    /\ \E o \in GetLocalBranches :
          /\ calls' = calls \o o.log
          /\ git' = o.git
          /\ Take(IF o.ok THEN clean_local_branches_interactive(o.v, env)
                  ELSE Return("Err:ListLocal", <<>>))
    /\ UNCHANGED <<inputs, args, scope, prompted, history, fnvars>>

clean_remote_branches_interactive_call ==
    /\ pc = "clean_remote_branches_interactive"
    /\ \E o \in GetRemoteBranches(scope.remote) :
          /\ calls' = calls \o o.log
          /\ git' = o.git
          /\ Take(IF o.ok THEN clean_remote_branches_interactive(o.v, env)
                  ELSE Return("Err:ListRemote", <<>>))
    /\ UNCHANGED <<inputs, args, scope, prompted, history, fnvars>>

ItemType(s) ==
    CASE s.kind = "worktree" -> "worktrees"
      [] s.kind = "local" -> "local branches"
      [] OTHER -> "remote branches"

\* clean_worktrees_interactive and the two clean_*_branches_interactive,
\* from the multi-selection prompt on
\* (the log keeps the names offered and the kind of answer)
multi_select ==
    /\ pc = "multi_select"
    /\ prompted' = TRUE
    /\ \/ /\ Take(Return("Err:Prompt", <<>>))
          /\ calls' = Append(calls, Call("multi_select", items, "error"))
       \/ /\ Take(clean_selected(interactive_multi_select(TRUE, <<>>),
                                 args.force, ItemType(scope)))
          /\ calls' = Append(calls, Call("multi_select", items, "cancelled"))
       \/ \E chosen \in SubSeqs(items) :
             /\ Take(clean_selected(interactive_multi_select(FALSE, chosen),
                                    args.force, ItemType(scope)))
             /\ calls' = Append(calls, Call("multi_select", items,
                                            IF chosen = <<>> THEN "empty" ELSE "chosen"))
    /\ UNCHANGED <<inputs, git, args, scope, history, fnvars>>

\* A variant that takes any answer for the affirmative one
confirm_deletion_any(confirmation) == confirmation \in {0, 1}

\* confirm_deletion(..) == 1: the answer is index 0 (cancel) or 1 (delete)
confirm_deletion(confirmation) == confirmation = 1

\* `!force && !confirm_deletion(..)?` where force is false: the prompt,
\* then the cancellation or the batch delete
confirm ==
    /\ pc = "confirm"
    /\ prompted' = TRUE
    /\ \/ /\ Take(Return("Err:Prompt", <<>>))
          /\ calls' = Append(calls, Call("confirm", <<>>, "error"))
       \/ \E confirmation \in {0, 1} :
             /\ calls' = Append(calls, Call("confirm", <<>>,
                                            IF confirmation = 1 THEN "yes" ELSE "no"))
             /\ IF confirm_deletion(confirmation)
                THEN Take(Step("delete", "running", <<>>, <<>>, targets))
                ELSE Take(Return("Ok", <<Msg("Operation cancelled.")>>))
    /\ UNCHANGED <<inputs, git, args, scope, history, fnvars>>

Remove(seq, name) == SelectSeq(seq, LAMBDA n : n # name)

\* A variant that leaves the loop at the first failure
Iteration_stop_on_failure(name, ok, err, item_type) ==
    LET d == IF ok THEN deleted + 1 ELSE deleted
        f == IF ok THEN failed ELSE failed + 1
    IN  /\ deleted' = d
        /\ failed' = f
        /\ IF idx = Len(targets) \/ ~ok
           THEN /\ pc' = "done"
                /\ result' = "Ok"
                /\ idx' = idx
                /\ out' = out \o print_deletion_result(name, ok, err)
                              \o print_deletion_summary(d, f, item_type)
           ELSE /\ pc' = pc
                /\ result' = result
                /\ idx' = idx + 1
                /\ out' = out \o print_deletion_result(name, ok, err)

\* A variant that returns an error when a deletion failed
Iteration_err_on_failure(name, ok, err, item_type) ==
    LET d == IF ok THEN deleted + 1 ELSE deleted
        f == IF ok THEN failed ELSE failed + 1
    IN  /\ deleted' = d
        /\ failed' = f
        /\ IF idx = Len(targets)
           THEN /\ pc' = "done"
                /\ result' = IF f > 0 THEN "Err:Delete" ELSE "Ok"
                /\ idx' = idx
                /\ out' = out \o print_deletion_result(name, ok, err)
                              \o print_deletion_summary(d, f, item_type)
           ELSE /\ pc' = pc
                /\ result' = result
                /\ idx' = idx + 1
                /\ out' = out \o print_deletion_result(name, ok, err)

\* One iteration of a batch delete's loop: the counters, the result line,
\* and after the last name the summary and Ok(())
Iteration(name, ok, err, item_type) ==
    LET d == IF ok THEN deleted + 1 ELSE deleted
        f == IF ok THEN failed ELSE failed + 1
    IN  /\ deleted' = d
        /\ failed' = f
        /\ IF idx = Len(targets)
           THEN /\ pc' = "done"
                /\ result' = "Ok"
                /\ idx' = idx
                /\ out' = out \o print_deletion_result(name, ok, err)
                              \o print_deletion_summary(d, f, item_type)
           ELSE /\ pc' = pc
                /\ result' = result
                /\ idx' = idx + 1
                /\ out' = out \o print_deletion_result(name, ok, err)

\* A variant that invokes the remove command although the path is missing
delete_worktrees_remove_missing ==
    /\ pc = "delete"
    /\ scope.kind = "worktree"
    /\ LET name == targets[idx]
       IN  \/ /\ Iteration(name, FALSE, "path error", "worktrees")
              /\ calls' = Append(calls, Call("worktree_path", name, "error"))
              /\ git' = git
           \/ /\ Iteration(name, FALSE, "git error", "worktrees")
              /\ calls' = calls \o <<Call("path_exists", name, "no"),
                                     Call("worktree_remove", name,
                                          IF args.force THEN "--force" ELSE "")>>
              /\ git' = git
           \/ \E ok \in BOOLEAN :
                 /\ Iteration(name, ok, "git error", "worktrees")
                 /\ calls' = Append(calls, Call("worktree_remove", name,
                                                IF args.force THEN "--force" ELSE ""))
                 /\ git' = IF ok THEN [git EXCEPT !.wts.v = Remove(@, name)] ELSE git
    /\ UNCHANGED <<inputs, args, scope, items, targets, prompted, history, fnvars>>

\* delete_worktrees: one worktree
delete_worktrees ==
    /\ pc = "delete"
    /\ scope.kind = "worktree"
    /\ LET name == targets[idx]
       IN  \/ /\ Iteration(name, FALSE, "path error", "worktrees")
              /\ calls' = Append(calls, Call("worktree_path", name, "error"))
              /\ git' = git
           \/ /\ Iteration(name, FALSE, "path not found", "worktrees")
              /\ calls' = Append(calls, Call("path_exists", name, "no"))
              /\ git' = git
           \/ \E ok \in BOOLEAN :
                 /\ Iteration(name, ok, "git error", "worktrees")
                 /\ calls' = Append(calls, Call("worktree_remove", name,
                                                IF args.force THEN "--force" ELSE ""))
                 /\ git' = IF ok THEN [git EXCEPT !.wts.v = Remove(@, name)] ELSE git
    /\ UNCHANGED <<inputs, args, scope, items, targets, prompted, history, fnvars>>

\* A variant that uses the soft delete whatever force is
delete_local_branches_soft ==
    /\ pc = "delete"
    /\ scope.kind = "local"
    /\ LET branch == targets[idx]
       IN  \E ok \in BOOLEAN :
              /\ Iteration(branch, ok, "git error", "local branches")
              /\ calls' = Append(calls, Call("branch_delete", branch, "-d"))
              /\ git' = IF ok THEN [git EXCEPT !.local.v = Remove(@, branch)] ELSE git
    /\ UNCHANGED <<inputs, args, scope, items, targets, prompted, history, fnvars>>

\* delete_local_branches: one branch
delete_local_branches ==
    /\ pc = "delete"
    /\ scope.kind = "local"
    /\ LET branch == targets[idx]
           flag == IF args.force THEN "-D" ELSE "-d"
       IN  \E ok \in BOOLEAN :
              /\ Iteration(branch, ok, "git error", "local branches")
              /\ calls' = Append(calls, Call("branch_delete", branch, flag))
              /\ git' = IF ok THEN [git EXCEPT !.local.v = Remove(@, branch)] ELSE git
    /\ UNCHANGED <<inputs, args, scope, items, targets, prompted, history, fnvars>>

\* delete_remote_branches: one branch
delete_remote_branches ==
    /\ pc = "delete"
    /\ scope.kind = "remote"
    /\ LET branch == targets[idx]
       IN  \E ok \in BOOLEAN :
              /\ Iteration(branch, ok, "git error", "branches")
              /\ calls' = Append(calls, Call("push_delete", branch, ""))
              /\ git' = IF ok THEN [git EXCEPT !.rbr.v = Remove(@, branch)] ELSE git
    /\ UNCHANGED <<inputs, args, scope, items, targets, prompted, history, fnvars>>

\* The operator repeats a finished dry-run, with the same command line,
\* against the backend as the run left it
Reinvoke ==
    /\ pc = "done"
    /\ cli.args.dry_run
    /\ run < MaxRuns
    /\ run' = run + 1
    /\ prevOut' = out
    /\ prevCalls' = calls
    /\ pc' = "main"
    /\ args' = NoArgs
    /\ scope' = WorktreeScope
    /\ items' = <<>>
    /\ targets' = <<>>
    /\ idx' = 1
    /\ deleted' = 0
    /\ failed' = 0
    /\ result' = "running"
    /\ out' = <<>>
    /\ calls' = <<>>
    /\ prompted' = FALSE
    /\ UNCHANGED <<inputs, git, fnvars>>

Next ==
    \/ main
    \/ interactive_menu
    \/ menu_main
    \/ menu_add
    \/ menu_clean
    \/ add_worktree
    \/ clean_worktrees_call
    \/ clean_all_worktrees_call
    \/ clean_branches_pattern
    \/ clean_branches_dry
    \/ clean_branches_interactive
    \/ scope_select
    \/ clean_local_branches_by_pattern_call
    \/ clean_remote_branches_by_pattern_call
    \/ clean_local_branches_interactive_call
    \/ clean_remote_branches_interactive_call
    \/ multi_select
    \/ confirm
    \/ delete_worktrees
    \/ delete_local_branches
    \/ delete_remote_branches
    \/ Reinvoke

Spec == Init /\ [][Next]_vars

(***************************************************************************)
(* Function specifications: a pure function applied to inputs drawn from   *)
(* bounded sets.  The run's variables stay as a run that never started.    *)
(***************************************************************************)
s_sp_rel == <<" ", "r", "e", "l">>
s_release == <<"r", "e", "l", "e", "a", "s", "e">>
s_main_dash_feature == <<"m", "a", "i", "n", "-", "f", "e", "a", "t", "u", "r", "e">>

\* parse_branch_pattern: the remotes git may report and the patterns given
r_origin == <<"o", "r", "i", "g", "i", "n">>
r_upstream == <<"u", "p", "s", "t", "r", "e", "a", "m">>
r_origin_backup == <<"o", "r", "i", "g", "i", "n", "-", "b", "a", "c", "k", "u", "p">>
r_origin_slash_backup == <<"o", "r", "i", "g", "i", "n", "/", "b", "a", "c", "k", "u", "p">>
r_origin2 == <<"o", "r", "i", "g", "i", "n", "2">>
ResolveRemotes == {r_origin, r_origin2, r_upstream, r_origin_backup, r_origin_slash_backup}

\* What get_configured_remotes returns: distinct non-empty names, in any order
ResolveRemoteLists ==
    {<<>>} \cup {<<r>> : r \in ResolveRemotes}
    \cup {p \in ResolveRemotes \X ResolveRemotes : p[1] # p[2]}
    \cup {p \in ResolveRemotes \X ResolveRemotes \X ResolveRemotes :
             p[1] # p[2] /\ p[1] # p[3] /\ p[2] # p[3]}

q_origin_feat == <<"o", "r", "i", "g", "i", "n", "/", "f", "e", "a", "t", "/", ".", "*">>
q_feat == <<"f", "e", "a", "t", "/", ".", "*">>
q_origin_backup_x == <<"o", "r", "i", "g", "i", "n", "-", "b", "a", "c", "k", "u", "p", "/", "x">>
q_origin_slash_backup_x == <<"o", "r", "i", "g", "i", "n", "/", "b", "a", "c", "k", "u", "p", "/", "x">>
q_upstream_x == <<"u", "p", "s", "t", "r", "e", "a", "m", "/", "x">>
q_origin2_x == <<"o", "r", "i", "g", "i", "n", "2", "/", "x">>
q_origin == <<"o", "r", "i", "g", "i", "n">>
q_origin_slash == <<"o", "r", "i", "g", "i", "n", "/">>
ResolvePatterns ==
    {q_origin_feat, q_feat, q_origin_backup_x, q_origin_slash_backup_x,
     q_upstream_x, q_origin2_x, q_origin, q_origin_slash, <<>>}

ProtectionNames ==
    {s_main, s_master, s_develop, s_development, s_main_dash_feature, s_Main,
     s_rel, s_stg, s_sp_rel, s_release, s_fa, <<>>, <<"r", "e">>}

ProtectionEnvs ==
    {EnvAbsent,
     EnvValue(<<>>),
     EnvValue(s_rel),
     EnvValue(s_rel_stg),
     EnvValue(<<" ", "r", "e", "l", " ", ",", "s", "t", "g">>),
     EnvValue(<<"r", "e", "l", ",">>),
     EnvValue(<<"R", "e", "l">>),
     EnvValue(s_release),
     EnvValue(<<"r", "e", " ", "l", ",", "\t", "s", "t", "g", " ", " ">>),
     EnvValue(<<"M", "a", "i", "n", ",", "f", "/", "a">>)}

Pending == [done |-> FALSE, v |-> FALSE]
Returned(x) == [done |-> TRUE, v |-> x]

FnInit ==
    /\ fnIn \in [fn : {"is_protected_branch"}, name : ProtectionNames, env : ProtectionEnvs]
                \cup [fn : {"parse_branch_pattern"}, pattern : ResolvePatterns,
                      remotes : ResolveRemoteLists]
    /\ fnOut = Pending
    /\ cli = [cmd |-> "menu", args |-> NoArgs]
    /\ terminal = FALSE
    /\ env = EnvAbsent
    /\ git = Backend0
    /\ pc = "fn"
    /\ args = NoArgs
    /\ scope = WorktreeScope
    /\ items = <<>>
    /\ targets = <<>>
    /\ idx = 1
    /\ deleted = 0
    /\ failed = 0
    /\ result = "running"
    /\ out = <<>>
    /\ calls = <<>>
    /\ prompted = FALSE
    /\ run = 1
    /\ prevOut = <<>>
    /\ prevCalls = <<>>

runvars == <<cli, terminal, env, git, pc, args, scope, items, targets, idx,
             deleted, failed, result, out, calls, prompted, run, prevOut,
             prevCalls>>

apply_is_protected_branch ==
    /\ ~fnOut.done
    /\ fnIn.fn = "is_protected_branch"
    /\ fnOut' = Returned(is_protected_branch(fnIn.name, fnIn.env))
    /\ UNCHANGED <<fnIn, runvars>>

apply_parse_branch_pattern ==
    /\ ~fnOut.done
    /\ fnIn.fn = "parse_branch_pattern"
    /\ fnOut' = Returned(parse_branch_pattern(fnIn.pattern, fnIn.remotes))
    /\ UNCHANGED <<fnIn, runvars>>

FnNext ==
    \/ apply_is_protected_branch
    \/ apply_parse_branch_pattern

FnSpec == FnInit /\ [][FnNext]_vars

(***************************************************************************)
(* Properties                                                              *)
(***************************************************************************)
\* The single-delete backend calls
DeleteOps == {"worktree_remove", "branch_delete", "push_delete"}
BranchDeleteOps == {"branch_delete", "push_delete"}
\* What a batch delete logs, one entry per name it processes
BatchOps == DeleteOps \cup {"worktree_path", "path_exists"}
ListOps == {"worktree_list", "branch_list", "remote_branch_list", "remote_list"}

Batch == SelectSeq(calls, LAMBDA c : c.op \in BatchOps)
ResultLines == SelectSeq(out, LAMBDA l : l.k = "result")

\* C1: no single-delete call (git branch -d/-D, git push <remote> --delete)
\* is ever issued for a branch name for which is_protected_branch is true,
\* in pattern and interactive mode, local and remote, with and without force
C1_NoProtectedBranchDeleted ==
    \A i \in 1..Len(calls) :
        calls[i].op \in BranchDeleteOps => ~is_protected_branch(calls[i].name, env)

\* A branch was deleted in a run whose pattern also matched a protected name
C1_Witness ==
    /\ \E i \in 1..Len(calls) : calls[i].op \in BranchDeleteOps
    /\ \E i \in 1..Len(out) :
          out[i].k = "protected" /\ out[i].msg = "branches" /\ s_main \in Range(out[i].items)

\* C2: the first call of a batch delete is preceded by the force flag or by
\* a confirmation answered with the affirmative choice; a confirmation
\* answered with the cancel choice ends the run successfully with no delete
C2_ConfirmedOrForced ==
    /\ \A i \in 1..Len(calls) :
          calls[i].op \in BatchOps =>
              \/ args.force
              \/ \E j \in 1..(i - 1) : calls[j].op = "confirm" /\ calls[j].flag = "yes"
    /\ (\E j \in 1..Len(calls) : calls[j].op = "confirm" /\ calls[j].flag = "no") =>
          /\ Batch = <<>>
          /\ pc = "done"
          /\ result = "Ok"

\* A delete was issued after an affirmative confirmation, without force
C2_Witness ==
    /\ ~args.force
    /\ \E i \in 1..Len(calls) : calls[i].op \in DeleteOps
    /\ \E j \in 1..Len(calls) : calls[j].op = "confirm" /\ calls[j].flag = "yes"

\* C3: with dry_run set the run shows no selection or confirmation prompt
\* and issues no delete (or any other mutating) call, and a second dry-run
\* to which the backend answers as to the first prints the same output
C3_DryRunHasNoEffect ==
    cli.args.dry_run =>
        /\ ~prompted
        /\ pc \notin {"scope_select", "multi_select", "confirm", "delete"}
        /\ \A i \in 1..Len(calls) : calls[i].op \in ListOps \cup {"current_branch"}
        /\ (run > 1 /\ pc = "done" /\ calls = prevCalls) => out = prevOut

\* A second dry-run has finished after printing names
C3_Witness ==
    /\ cli.args.dry_run
    /\ run > 1
    /\ pc = "done"
    /\ calls = prevCalls
    /\ Len(out) >= 2

\* The local branches get_local_branches returned in this run, read off the
\* backend and the answer to the current-branch query
CurrentKnown == \E i \in 1..Len(calls) : calls[i].op = "current_branch" /\ calls[i].flag = "ok"
Listed ==
    IF scope.kind = "remote" THEN git.rbr.v
    ELSE SelectSeq(git.local.v, LAMBDA n : ~(CurrentKnown /\ n = git.cur))

\* C4: the dry-run output of `clean branches <pattern>` is exactly the
\* listed names that match the pattern and are not protected, in listing
\* order (one per line, or as one JSON array), with and without --force
C4_DryRunOutput ==
    (/\ cli.cmd = "branches"
     /\ cli.args.pattern.some
     /\ cli.args.dry_run
     /\ pc = "done"
     /\ result = "Ok") =>
        LET expected == SelectSeq(Listed, LAMBDA n :
                            IsMatch(args.pattern.v, n) /\ ~is_protected_branch(n, env))
        IN  IF cli.args.json
            THEN out = <<Raw(JsonArray(expected))>>
            ELSE out = [i \in 1..Len(expected) |-> Raw(expected[i])]

\* A forced dry-run printed two names although the pattern also matched a
\* protected one
C4_Witness ==
    /\ cli.cmd = "branches"
    /\ cli.args.pattern.some
    /\ cli.args.dry_run
    /\ cli.args.force
    /\ ~cli.args.json
    /\ pc = "done"
    /\ result = "Ok"
    /\ Len(out) = 2
    /\ \E i \in 1..Len(Listed) : Listed[i] = s_main /\ IsMatch(args.pattern.v, s_main)

\* C5: the dry-run and JSON output of the worktree clean commands never
\* contains a name the protection policy reports as protected
C5_WorktreeDryRunOmitsProtected ==
    (cli.cmd \in {"worktrees", "worktrees_all"} /\ cli.args.dry_run) =>
        \A i \in 1..Len(out) :
            /\ ~is_protected_branch(out[i].text, env)
            /\ \A j \in 1..Len(WtPool) :
                  is_protected_branch(WtPool[j], env) =>
                      ~Contains(out[i].text, JsonString(WtPool[j]))

\* name is one of the override's comma-separated entries, trimmed: some
\* maximal comma-free stretch val[i..j] is whitespace, then name, then
\* whitespace, and name neither starts nor ends with whitespace
IsOverrideEntry(name, val) ==
    \E i \in 1..(Len(val) + 1) : \E j \in (i - 1)..Len(val) :
        /\ i = 1 \/ val[i - 1] = ","
        /\ j = Len(val) \/ val[j + 1] = ","
        /\ \A k \in i..j : val[k] # ","
        /\ \E a \in i..(j + 1) :
              /\ a - 1 + Len(name) <= j
              /\ SubSeq(val, a, a - 1 + Len(name)) = name
              /\ \A k \in i..(a - 1) : IsWhitespace(val[k])
              /\ \A k \in (a + Len(name))..j : IsWhitespace(val[k])
        /\ name # <<>> => ~IsWhitespace(name[1]) /\ ~IsWhitespace(name[Len(name)])

\* C6: is_protected_branch(name) is true exactly when name is main, master,
\* develop or development, or the override is present and name equals,
\* exactly and case-sensitively, one of its comma-separated entries trimmed
C6_ProtectedIff ==
    (fnOut.done /\ fnIn.fn = "is_protected_branch") =>
        fnOut.v = (\/ fnIn.name \in {s_main, s_master, s_develop, s_development}
                   \/ fnIn.env.set /\ IsOverrideEntry(fnIn.name, fnIn.env.val))

\* "rel" is found protected by the override " rel ,stg"
C6_Witness ==
    /\ fnOut.done
    /\ fnOut.v
    /\ fnIn.fn = "is_protected_branch"
    /\ fnIn.name = s_rel
    /\ fnIn.env = EnvValue(<<" ", "r", "e", "l", " ", ",", "s", "t", "g">>)

\* C7: a batch delete processes each name once, in the order given; a
\* failure does not stop it; when it ends, succeeded + failed is the number
\* of names, failed the number of failing items, and the summary says so
C7_BatchFailureTolerant ==
    /\ Len(Batch) <= Len(targets)
    /\ \A i \in 1..Len(Batch) : Batch[i].name = targets[i]
    /\ Len(ResultLines) = Len(Batch)
    /\ pc = "delete" => idx = Len(Batch) + 1 /\ idx <= Len(targets)
    /\ Batch # <<>> =>
          /\ deleted + failed = Len(Batch)
          /\ failed = Len(SelectSeq(ResultLines, LAMBDA l : l.msg # "ok"))
          /\ pc \in {"delete", "done"}
          /\ pc = "done" =>
                /\ Len(Batch) = Len(targets)
                /\ \E i \in 1..Len(out) : out[i].k = "deleted" /\ out[i].d = deleted
                /\ failed > 0 => out[Len(out)].k = "failed" /\ out[Len(out)].f = failed

\* Three names, the second failed: succeeded = 2, failed = 1
C7_Witness ==
    /\ pc = "done"
    /\ Len(targets) = 3
    /\ Len(ResultLines) = 3
    /\ ResultLines[1].msg = "ok"
    /\ ResultLines[2].msg # "ok"
    /\ ResultLines[3].msg = "ok"
    /\ deleted = 2
    /\ failed = 1

\* C8: a batch delete that was started returns Ok, however many of its
\* deletions failed
C8_BatchReturnsOk ==
    Batch # <<>> =>
        /\ result \in {"running", "Ok"}
        /\ pc = "done" => result = "Ok"

\* A batch of two or more names in which every deletion failed returned Ok
C8_Witness ==
    /\ pc = "done"
    /\ result = "Ok"
    /\ Len(Batch) >= 2
    /\ deleted = 0
    /\ failed = Len(Batch)

\* C9: a pattern-mode clean whose pattern is not a valid regular expression
\* fails with the invalid-pattern error, before any listing call and before
\* any delete call, whatever the backend holds (stated of the runs in which
\* the backend answers every call made)
C9_InvalidPatternFirst ==
    (/\ cli.cmd \in {"worktrees", "branches"}
     /\ cli.args.pattern.some
     /\ ~RegexCompiles(cli.args.pattern.v)
     /\ \A i \in 1..Len(calls) : calls[i].flag \notin {"failed", "error"}) =>
        /\ \A i \in 1..Len(calls) : calls[i].op \notin ListOps \cup BatchOps
        /\ pc = "done" => result = "Err:InvalidPattern"

\* C10: without a terminal, no path reaches the interactive selection: no
\* prompt is presented and the selection is not entered, the command having
\* failed with the requires-a-terminal error
C10_RequiresTerminal ==
    ~terminal =>
        /\ ~prompted
        /\ pc \notin {"menu_main", "scope_select", "multi_select"}
        /\ (pc = "done" /\ cli.cmd = "menu") => result = "Err:RequiresTerminal"

\* s begins with prefix, character by character
HasPrefix(s, prefix) ==
    /\ Len(prefix) <= Len(s)
    /\ \A k \in 1..Len(prefix) : s[k] = prefix[k]

\* C11: parse_branch_pattern returns Remote(r) and the pattern minus its
\* leading "r/" for the first remote r, in list order, such that the
\* pattern starts with "r/", and Local with the pattern unchanged when no
\* remote qualifies; in the Remote case r + "/" + the returned pattern is
\* the pattern given
C11_ScopeResolution ==
    (fnOut.done /\ fnIn.fn = "parse_branch_pattern") =>
        LET remotes == fnIn.remotes
            pattern == fnIn.pattern
            first(i) == /\ HasPrefix(pattern, remotes[i] \o <<"/">>)
                        /\ \A j \in 1..(i - 1) : ~HasPrefix(pattern, remotes[j] \o <<"/">>)
        IN  /\ \A i \in 1..Len(remotes) :
                  first(i) =>
                      /\ fnOut.v.scope = [kind |-> "remote", remote |-> remotes[i]]
                      /\ remotes[i] \o <<"/">> \o fnOut.v.pattern = pattern
            /\ (\A i \in 1..Len(remotes) : ~first(i)) =>
                  /\ fnOut.v.scope = [kind |-> "local", remote |-> <<>>]
                  /\ fnOut.v.pattern = pattern
            /\ (pattern = q_origin_feat /\ remotes = <<r_origin, r_upstream>>) =>
                  fnOut.v = [scope |-> [kind |-> "remote", remote |-> r_origin],
                             pattern |-> q_feat]
            /\ (pattern = q_feat /\ remotes = <<r_origin>>) =>
                  fnOut.v = [scope |-> [kind |-> "local", remote |-> <<>>],
                             pattern |-> q_feat]

\* "origin/feat/.*" with the remotes origin, upstream resolved to the remote
\* origin and "feat/.*"
C11_Witness ==
    /\ fnOut.done
    /\ fnIn.fn = "parse_branch_pattern"
    /\ fnIn.pattern = q_origin_feat
    /\ fnIn.remotes = <<r_origin, r_upstream>>
    /\ fnOut.v.scope.kind = "remote"
    /\ fnOut.v.pattern = q_feat

\* C12: scope resolution never fails: every failure of listing the
\* configured remotes is taken for an empty remote list, so the pattern
\* resolves to Local, unchanged, and the command proceeds
C12_RemoteListingFailureNonFatal ==
    (/\ cli.cmd = "branches"
     /\ cli.args.pattern.some
     /\ RegexCompiles(cli.args.pattern.v)
     /\ \E i \in 1..Len(calls) :
           calls[i].op = "remote_list" /\ calls[i].flag \in {"failed", "error"}) =>
        /\ result # "Err:GitRemote"
        /\ scope = LocalScope
        /\ args.pattern = cli.args.pattern

\* The names a finished branch run had to decide on: the listed names the
\* pattern matches, or every listed name when no pattern was given
BranchesMatched ==
    SelectSeq(Listed, LAMBDA n : args.pattern.some => IsMatch(args.pattern.v, n))

Selections == SelectSeq(calls, LAMBDA c : c.op = "multi_select")

\* C14: a multi-selection that returns ends in one of three ways: names
\* chosen, each of them one of the names offered; nothing chosen; or
\* cancelled.  The last two lead to no delete call, no confirmation prompt
\* and a successful return, and are reported with different messages
C14_SelectionOutcomes ==
    \A i \in 1..Len(Selections) :
        LET c == Selections[i]
        IN  /\ c.flag \in {"chosen", "empty", "cancelled", "error"}
            /\ c.flag = "chosen" =>
                  /\ Range(targets) \subseteq Range(c.name)
                  /\ \A j \in 1..Len(Batch) : Batch[j].name \in Range(c.name)
                  /\ \E j \in 1..Len(out) :
                        /\ out[j].k = "found"
                        /\ out[j].items # <<>>
                        /\ Range(out[j].items) \subseteq Range(c.name)
            /\ c.flag \in {"empty", "cancelled"} =>
                  /\ pc = "done"
                  /\ result = "Ok"
                  /\ Batch = <<>>
                  /\ \A j \in 1..Len(calls) : calls[j].op # "confirm"
                  /\ out[Len(out)].k = "msg"
                  /\ out[Len(out)].msg =
                        (IF c.flag = "empty" THEN "No items selected."
                         ELSE "Selection cancelled.")

\* Names were offered and none was chosen
C14_Witness ==
    /\ Selections # <<>>
    /\ Selections[1].flag = "empty"
    /\ Selections[1].name # <<>>
    /\ pc = "done"
    /\ out[Len(out)].msg = "No items selected."

\* C15: in every branch clean run that is not in JSON mode, dry-run
\* included, the matched names that are protected are displayed as skipped
\* (stated of the runs in which the backend answers every call made)
C15_ProtectedSkipsDisplayed ==
    (/\ cli.cmd = "branches"
     /\ ~cli.args.json
     /\ pc = "done"
     /\ result = "Ok"
     /\ \A i \in 1..Len(calls) : calls[i].flag \notin {"failed", "error"}) =>
        \A i \in 1..Len(BranchesMatched) :
            is_protected_branch(BranchesMatched[i], env) =>
                \E j \in 1..Len(out) :
                    /\ out[j].k = "protected"
                    /\ BranchesMatched[i] \in Range(out[j].items)

\* C16: in a worktree batch delete, a worktree whose path does not exist
\* when it is processed is recorded as the failure "path not found", the
\* remove command is not invoked for it, it is counted as failed, and the
\* batch goes on with the next worktree
C16_MissingPathIsFailure ==
    \A i \in 1..Len(Batch) :
        (Batch[i].op = "path_exists" /\ Batch[i].flag = "no") =>
            /\ scope.kind = "worktree"
            /\ \A j \in 1..Len(calls) :
                  ~(calls[j].op = "worktree_remove" /\ calls[j].name = Batch[i].name)
            /\ Batch[i].name \in Range(git.wts.v)
            /\ Len(ResultLines) >= i
            /\ ResultLines[i].k = "result"
            /\ ResultLines[i].msg = "path not found"
            /\ ResultLines[i].text = Batch[i].name
            /\ failed >= Len(SelectSeq(Batch, LAMBDA c : c.op = "path_exists"))
            /\ deleted + failed = Len(Batch)
            /\ i < Len(targets) =>
                  \/ pc = "delete" /\ idx > i
                  \/ pc = "done" /\ Len(Batch) = Len(targets)

\* The first of two worktrees had no path, and the second was removed
C16_Witness ==
    /\ Len(Batch) = 2
    /\ Batch[1].op = "path_exists"
    /\ Batch[2].op = "worktree_remove"
    /\ ResultLines[1].msg = "path not found"
    /\ ResultLines[2].msg = "ok"
    /\ deleted = 1
    /\ failed = 1
    /\ pc = "done"

\* C17 as stated: for the remotes origin and origin-backup and the pattern
\* "origin-backup/x", the two listing orders resolve to different scopes
C17_OrderDependentExample ==
    (/\ fnOut.done
     /\ fnIn.fn = "parse_branch_pattern"
     /\ fnIn.pattern = q_origin_backup_x
     /\ fnIn.remotes = <<r_origin, r_origin_backup>>) =>
        fnOut.v.scope # parse_branch_pattern(fnIn.pattern, <<r_origin_backup, r_origin>>).scope

\* C17, amended: with two remotes, the two listing orders resolve to
\* different scopes exactly when the pattern starts with both remotes'
\* names followed by "/" (origin and origin/backup for "origin/backup/x");
\* for origin and origin-backup and "origin-backup/x" both orders resolve
\* to the remote origin-backup and the pattern "x"
C17_OrderDependence ==
    (fnOut.done /\ fnIn.fn = "parse_branch_pattern" /\ Len(fnIn.remotes) = 2) =>
        LET r1 == fnIn.remotes[1]
            r2 == fnIn.remotes[2]
            pattern == fnIn.pattern
            swapped == parse_branch_pattern(pattern, <<r2, r1>>)
            both == /\ HasPrefix(pattern, r1 \o <<"/">>)
                    /\ HasPrefix(pattern, r2 \o <<"/">>)
        IN  /\ (fnOut.v.scope # swapped.scope) <=> both
            /\ (pattern = q_origin_backup_x /\ {r1, r2} = {r_origin, r_origin_backup}) =>
                  /\ fnOut.v = swapped
                  /\ fnOut.v.scope = [kind |-> "remote", remote |-> r_origin_backup]
                  /\ fnOut.v.pattern = <<"x">>
            /\ (pattern = q_origin_slash_backup_x
                  /\ r1 = r_origin /\ r2 = r_origin_slash_backup) =>
                  /\ fnOut.v.scope = [kind |-> "remote", remote |-> r_origin]
                  /\ swapped.scope = [kind |-> "remote", remote |-> r_origin_slash_backup]

\* "origin-backup/x" was resolved with the remotes listed as origin,
\* origin-backup
C17_Witness ==
    /\ fnOut.done
    /\ fnIn.fn = "parse_branch_pattern"
    /\ fnIn.pattern = q_origin_backup_x
    /\ fnIn.remotes = <<r_origin, r_origin_backup>>
    /\ fnOut.v.scope.kind = "remote"
    /\ fnOut.v.scope.remote = r_origin_backup

\* An interactive branch run that has listed its branches
InteractiveBranches ==
    /\ cli.cmd \in {"branches", "menu"}
    /\ ~args.pattern.some
    /\ ~args.dry_run
    /\ scope.kind \in {"local", "remote"}
    /\ \E i \in 1..Len(calls) :
          calls[i].op \in {"branch_list", "remote_branch_list"} /\ calls[i].flag = "ok"

\* The names displayed as protected, and the names offered for selection
ShownProtected ==
    LET shown == SelectSeq(out, LAMBDA l : l.k = "protected")
    IN  IF shown = <<>> THEN <<>> ELSE shown[1].items
Offered ==
    IF pc = "multi_select" THEN items
    ELSE IF Selections # <<>> THEN Selections[1].name
    ELSE <<>>

\* C18: in the interactive branch flows the listed branches are split
\* into protected and deletable, no name in both and every listed name in
\* one of them; only deletable names are offered, so every name passed to
\* the batch delete is a listed name that is not protected; and when no
\* name is deletable no selection is presented and nothing is deleted
C18_InteractivePartition ==
    InteractiveBranches =>
        /\ Range(ShownProtected) \cap Range(Offered) = {}
        /\ Range(Listed) \subseteq Range(ShownProtected) \cup Range(Offered)
        /\ Batch = <<>> => Range(Listed) = Range(ShownProtected) \cup Range(Offered)
        /\ \A n \in Range(ShownProtected) : is_protected_branch(n, env)
        /\ \A n \in Range(Offered) : ~is_protected_branch(n, env)
        /\ Range(targets) \subseteq Range(Offered)
        /\ \A j \in 1..Len(Batch) :
              /\ Batch[j].name \in Range(Offered)
              /\ ~is_protected_branch(Batch[j].name, env)
        /\ (Batch = <<>> /\ \A n \in Range(Listed) : is_protected_branch(n, env)) =>
              /\ Selections = <<>>
              /\ \A j \in 1..Len(calls) : calls[j].op \notin {"multi_select", "confirm"}
              /\ pc = "done"
              /\ result = "Ok"

\* A branch was deleted after a selection that was shown next to the
\* protected names
C18_Witness ==
    /\ InteractiveBranches
    /\ ShownProtected # <<>>
    /\ Len(Offered) >= 2
    /\ \E j \in 1..Len(Batch) : Batch[j].op \in BranchDeleteOps

\* The pattern is found in the name, stated pattern by pattern: a literal
\* is found where it is a substring, ".*" everywhere, "f.*" where there is
\* an "f", "^main$" in "main" alone
Found(pattern, name) ==
    CASE pattern = p_all -> TRUE
      [] pattern = p_feat -> Contains(name, <<"f">>)
      [] pattern = p_main -> Contains(name, s_main)
      [] pattern = p_a -> Contains(name, <<"a">>)
      [] pattern = <<"^", "m", "a", "i", "n", "$">> -> name = s_main
      [] pattern = p_o_all -> Contains(name, <<"o", "/">>)
      [] OTHER -> FALSE

\* The names a finished plain dry-run printed, one per line
Printed == [i \in 1..Len(out) |-> out[i].text]

\* C19: the pattern filter returns exactly the listed names in which the
\* pattern is found anywhere, in listing order, none added, duplicated or
\* reordered (read off a plain dry-run: the worktrees matching, and the
\* branches matching that are not protected)
C19_PatternFilter ==
    (/\ cli.cmd \in {"worktrees", "branches"}
     /\ cli.args.pattern.some
     /\ cli.args.dry_run
     /\ ~cli.args.json
     /\ pc = "done"
     /\ result = "Ok") =>
        LET listing == IF cli.cmd = "worktrees" THEN git.wts.v ELSE Listed
        IN  /\ \A i \in 1..Len(out) : out[i].k = "raw"
            /\ Printed = SelectSeq(listing, LAMBDA n : n \in Range(Printed))
            /\ \A i \in 1..Len(listing) :
                  listing[i] \in Range(Printed) <=>
                      /\ Found(args.pattern.v, listing[i])
                      /\ cli.cmd = "branches" => ~is_protected_branch(listing[i], env)

\* The literal "a" was found in the worktrees f-a and main, listed with
\* others between and after them, and not in the others
C19_Witness ==
    /\ cli.cmd = "worktrees"
    /\ cli.args.pattern = Some(p_a)
    /\ cli.args.dry_run
    /\ ~cli.args.json
    /\ pc = "done"
    /\ result = "Ok"
    /\ git.wts.v = WtPool
    /\ Printed = <<s_wa, s_main>>

\* C20: the local-branch listing never contains the checked-out branch: in
\* every local-branch clean it is never emitted as deletable, never offered
\* for selection and never passed to the delete backend, also when the
\* current branch cannot be determined
C20_CurrentBranchExcluded ==
    (cli.cmd \in {"branches", "menu"} /\ scope.kind = "local" /\ git.local.known) =>
        /\ \A i \in 1..Len(out) :
              /\ out[i].k = "raw" => out[i].text # git.cur
              /\ out[i].k = "raw" => ~Contains(out[i].text, JsonString(git.cur))
              /\ out[i].k = "found" => git.cur \notin Range(out[i].items)
        /\ git.cur \notin Range(items)
        /\ git.cur \notin Range(targets)
        /\ \A i \in 1..Len(calls) :
              calls[i].op = "branch_delete" => calls[i].name # git.cur

\* The run's confirmation was answered with the affirmative choice
Confirmed == \E j \in 1..Len(calls) : calls[j].op = "confirm" /\ calls[j].flag = "yes"

\* C21: force selects the delete variant: worktree removal carries the
\* force option exactly when force is set, a local branch is deleted with
\* -D exactly when force is set and with -d otherwise, a remote branch with
\* the same push-delete either way; so a local batch that skipped the
\* confirmation uses -D throughout and a confirmed one -d throughout
C21_ForceSelectsVariant ==
    \A i \in 1..Len(calls) :
        /\ calls[i].op = "worktree_remove" =>
              calls[i].flag = (IF cli.args.force THEN "--force" ELSE "")
        /\ calls[i].op = "branch_delete" =>
              /\ calls[i].flag = (IF cli.args.force THEN "-D" ELSE "-d")
              /\ ~Confirmed => calls[i].flag = "-D"
              /\ Confirmed => calls[i].flag = "-d"
              /\ Confirmed # cli.args.force
        /\ calls[i].op = "push_delete" => calls[i].flag = ""

\* Two local branches were deleted with -D and no confirmation was asked
C21_Witness ==
    /\ cli.args.force
    /\ \A j \in 1..Len(calls) : calls[j].op # "confirm"
    /\ Len(Batch) = 2
    /\ \A j \in 1..Len(Batch) : Batch[j].op = "branch_delete" /\ Batch[j].flag = "-D"

\* Where a menu session is before an operation was chosen
MenuStates == {"main", "interactive_menu", "menu_main", "menu_add", "menu_clean"}

\* One step of a menu session
MenuStep ==
    cli.cmd = "menu" =>
        /\ pc = "menu_main" =>
              /\ calls' = <<>>
              /\ out' = <<>>
              /\ \/ pc' \in {"menu_add", "menu_clean"} /\ result' = "running"
                 \/ pc' = "done" /\ result' \in {"Ok", "Err:Prompt"}
        /\ pc = "menu_add" =>
              /\ calls' = <<>>
              /\ \/ pc' \in {"add_worktree", "menu_main"} /\ result' = "running"
                 \/ pc' = "done" /\ result' = "Err:Prompt"
        /\ pc = "menu_clean" =>
              /\ calls' = <<>>
              /\ \/ /\ pc' \in {"clean_worktrees", "clean_branches"}
                    /\ result' = "running"
                    /\ args' = [pattern |-> [some |-> FALSE, v |-> <<>>],
                                force |-> FALSE, dry_run |-> FALSE, json |-> FALSE]
                 \/ pc' = "menu_main" /\ result' = "running"
                 \/ pc' = "done" /\ result' = "Err:Prompt"
        /\ pc \notin MenuStates =>
              /\ pc' \notin MenuStates
              /\ args' = args
              /\ ~args.force /\ ~args.dry_run /\ ~args.json
        /\ result # "running" => result' = result
        /\ result' # "running" <=> pc' = "done"

\* C22: the menu is a loop: Exit or a cancellation at the main menu ends
\* the command successfully with no backend call; Back or a cancellation
\* in a submenu returns to the main menu; an operation chosen runs once,
\* with force, dry_run and json false, and ends the loop, its error being
\* the command's
C22_MenuLoop == [][MenuStep]_vars

\* A menu session ended after the clean operation chosen deleted something
C22_Witness ==
    /\ cli.cmd = "menu"
    /\ pc = "done"
    /\ result = "Ok"
    /\ prompted
    /\ \E j \in 1..Len(Batch) : Batch[j].op \in DeleteOps

\* The orderings of a list of remotes
Orderings(remotes) ==
    {[i \in 1..Len(remotes) |-> remotes[f[i]]] : f \in Permutations(1..Len(remotes))}

\* C23: when no configured remote name contains "/", at most one remote r
\* is such that the pattern starts with "r/", and scope resolution returns
\* the same result for every ordering of the remotes, also when one name
\* is a prefix of another (origin, origin2)
C23_OrderIndependence ==
    (/\ fnOut.done
     /\ fnIn.fn = "parse_branch_pattern"
     /\ \A i \in 1..Len(fnIn.remotes) :
           \A k \in 1..Len(fnIn.remotes[i]) : fnIn.remotes[i][k] # "/") =>
        /\ Cardinality({i \in 1..Len(fnIn.remotes) :
                           HasPrefix(fnIn.pattern, fnIn.remotes[i] \o <<"/">>)}) <= 1
        /\ \A other \in Orderings(fnIn.remotes) :
              parse_branch_pattern(fnIn.pattern, other) = fnOut.v
        /\ (fnIn.pattern = q_origin2_x /\ Range(fnIn.remotes) = {r_origin, r_origin2}) =>
              fnOut.v = [scope |-> [kind |-> "remote", remote |-> r_origin2],
                         pattern |-> <<"x">>]

\* "origin2/x" was resolved to the remote origin2 with origin listed first
C23_Witness ==
    /\ fnOut.done
    /\ fnIn.fn = "parse_branch_pattern"
    /\ fnIn.pattern = q_origin2_x
    /\ fnIn.remotes = <<r_origin, r_origin2>>
    /\ fnOut.v.scope = [kind |-> "remote", remote |-> r_origin2]

=============================================================================
